---------------------------- MODULE Spec2Model ----------------------------
(***************************************************************************)
(* Model of the Hamvoip directory tool (hamvoip_directory_tool.py) and of  *)
(* its predecessor script (get_data_from_pdf.py).                          *)
(*                                                                         *)
(* A text is a sequence of one-character strings.  The two regular         *)
(* expressions of extract_extensions are modelled by what Python's re      *)
(* engine does on them: a scan over the start positions, greedy character  *)
(* class runs, the lazy label of pattern_4digits and its lookahead.        *)
(***************************************************************************)
EXTENDS Integers, Sequences, FiniteSets, TLC

VARIABLES
    pc,                         \* position of the script
    response,                   \* the last HTTP response: status code, link found
    args,                       \* argparse namespace: flag name -> BOOLEAN
    pdf_text,                   \* text handed to extract_extensions
    matches_3digits,            \* pattern_3digits matches (groups and span)
    matches_4digits,            \* pattern_4digits matches (groups and span)
    data_3digits,               \* [int, callsign, name] lists
    data_4digits,               \* [int, name] lists
    data_longer_than_4digits,   \* [int, name] lists
    files,                      \* file name -> [exists, header, rows]
    calls,                      \* emitter name -> number of calls made
    stdout                      \* lines printed so far

vars == <<pc, response, args, pdf_text, matches_3digits, matches_4digits, data_3digits,
          data_4digits, data_longer_than_4digits, files, calls, stdout>>

----------------------------------------------------------------------------
(* Characters and strings                                                  *)

DigitChars == <<"0", "1", "2", "3", "4", "5", "6", "7", "8", "9">>

UpperChars == <<"A", "B", "C", "D", "E", "F", "G", "H", "I", "J", "K", "L", "M",
                "N", "O", "P", "Q", "R", "S", "T", "U", "V", "W", "X", "Y", "Z">>

LowerChars == <<"a", "b", "c", "d", "e", "f", "g", "h", "i", "j", "k", "l", "m",
                "n", "o", "p", "q", "r", "s", "t", "u", "v", "w", "x", "y", "z">>

Range(s) == {s[i] : i \in DOMAIN s}

IsDigit(c) == c \in Range(DigitChars)

IsSpace(c) == c \in {" ", "\n", "\t", "\r"}

\* text[i], or "" past either end of the text
At(text, i) == IF i \in 1..Len(text) THEN text[i] ELSE ""

\* text[i:j] of Python with 1-based i and exclusive j
Slice(text, i, j) == SubSeq(text, i, j - 1)

\* the literal lit stands at position i of text
HasLit(text, i, lit) ==
    /\ i >= 1
    /\ i + Len(lit) - 1 <= Len(text)
    /\ \A k \in 1..Len(lit) : text[i + k - 1] = lit[k]

Sep == <<" ", "-", " ">>

\* str.lower() on a string
lower(s) ==
    [i \in 1..Len(s) |->
        IF \E k \in 1..26 : UpperChars[k] = s[i]
        THEN LowerChars[CHOOSE k \in 1..26 : UpperChars[k] = s[i]]
        ELSE s[i]]

\* str.upper() on one character, then on a string
UpperChar(c) ==
    IF \E i \in 1..26 : LowerChars[i] = c
    THEN UpperChars[CHOOSE i \in 1..26 : LowerChars[i] = c]
    ELSE c

upper(s) == [i \in 1..Len(s) |-> UpperChar(s[i])]

RECURSIVE lstrip(_)
lstrip(s) == IF s # <<>> /\ IsSpace(Head(s)) THEN lstrip(Tail(s)) ELSE s

RECURSIVE rstrip(_)
rstrip(s) ==
    IF s # <<>> /\ IsSpace(s[Len(s)]) THEN rstrip(SubSeq(s, 1, Len(s) - 1)) ELSE s

\* str.strip()
strip(s) == rstrip(lstrip(s))

DigitVal(c) == (CHOOSE i \in 1..10 : DigitChars[i] = c) - 1

\* int(s) for a string of decimal digits: leading zeros vanish
RECURSIVE int(_)
int(s) == IF s = <<>> THEN 0 ELSE 10 * int(SubSeq(s, 1, Len(s) - 1)) + DigitVal(s[Len(s)])

\* str(n) for a natural number: the decimal digits without leading zeros
RECURSIVE str(_)
str(n) == IF n < 10 THEN <<DigitChars[n + 1]>> ELSE str(n \div 10) \o <<DigitChars[(n % 10) + 1]>>

----------------------------------------------------------------------------
(* The regular expressions of extract_extensions                           *)

\* the classes with [^\n] in the place of [^0-9\n]
InClass_LabelWithDigits(cls, c) ==
    CASE cls = "d" -> IsDigit(c)
      [] cls = "w" -> c \in Range(UpperChars) \/ IsDigit(c)
      [] cls = "n" -> c # "" /\ c # "\n"
      [] cls = "." -> c # "" /\ c # "\n"

\* character classes: "d" is \d, "w" is [A-Z0-9], "n" is [^0-9\n], "." is .
InClass(cls, c) ==
    CASE cls = "d" -> IsDigit(c)
      [] cls = "w" -> c \in Range(UpperChars) \/ IsDigit(c)
      [] cls = "n" -> c # "" /\ ~IsDigit(c) /\ c # "\n"
      [] cls = "." -> c # "" /\ c # "\n"

\* end (exclusive) of the longest run of class cls that starts at i
RECURSIVE RunEnd(_, _, _)
RunEnd(text, i, cls) ==
    IF i <= Len(text) /\ InClass(cls, text[i]) THEN RunEnd(text, i + 1, cls) ELSE i

NoMatch == [start |-> 0, stop |-> 0, groups |-> <<>>]

\* a pattern that accepts a label only when it reaches the end of its line
pattern_3digits_WholeLine(text, p) ==
    LET tok == p + 6
        tokEnd == RunEnd(text, tok, "w")
        lab == tokEnd + 3
        labEnd == RunEnd(text, lab, "n")
    IN  IF /\ At(text, p) = "3"
           /\ IsDigit(At(text, p + 1))
           /\ IsDigit(At(text, p + 2))
           /\ HasLit(text, p + 3, Sep)
           /\ tokEnd > tok
           /\ HasLit(text, tokEnd, Sep)
           /\ labEnd > lab
           /\ At(text, labEnd) \in {"", "\n"}
        THEN [start |-> p, stop |-> labEnd,
              groups |-> <<Slice(text, p, p + 3), Slice(text, tok, tokEnd),
                           Slice(text, lab, labEnd)>>]
        ELSE NoMatch

\* (3\d{2}) - ([A-Z0-9]+) - ([^0-9\n]+) tried at position p.  Both greedy runs
\* are followed by a character outside their class, so giving characters back
\* never helps: the engine succeeds with the longest runs or not at all.
pattern_3digits(text, p) ==
    LET tok == p + 6
        tokEnd == RunEnd(text, tok, "w")
        lab == tokEnd + 3
        labEnd == RunEnd(text, lab, "n")
    IN  IF /\ At(text, p) = "3"
           /\ IsDigit(At(text, p + 1))
           /\ IsDigit(At(text, p + 2))
           /\ HasLit(text, p + 3, Sep)
           /\ tokEnd > tok
           /\ HasLit(text, tokEnd, Sep)
           /\ labEnd > lab
        THEN [start |-> p, stop |-> labEnd,
              groups |-> <<Slice(text, p, p + 3), Slice(text, tok, tokEnd),
                           Slice(text, lab, labEnd)>>]
        ELSE NoMatch

\* the digit threshold of \d{4,}
MinLongDigits == 4

\* LongNumberAt with the threshold of \d{3,}
LongNumberAt_ThreeDigits(text, i, lit) ==
    LET e == RunEnd(text, i, "d")
    IN  e - i >= MinLongDigits - 1 /\ HasLit(text, e, lit)

\* \d{4,} followed by the literal lit, tried at position i
LongNumberAt(text, i, lit) ==
    LET e == RunEnd(text, i, "d")
    IN  e - i >= MinLongDigits /\ HasLit(text, e, lit)

\* $ without re.MULTILINE: the end of the text, or just before a final newline
AtEnd(text, i) ==
    \/ i = Len(text) + 1
    \/ i = Len(text) /\ text[i] = "\n"

\* Lookahead without the alternative of the next number: (?=\n|$)
Lookahead_LineEndOnly(text, i) ==
    \/ At(text, i) = "\n"
    \/ AtEnd(text, i)

\* (?=\d{4,} -|\n|$) at position i
Lookahead(text, i) ==
    \/ LongNumberAt(text, i, <<" ", "-">>)
    \/ At(text, i) = "\n"
    \/ AtEnd(text, i)

\* (.*?) before the lookahead: take one more character only while the
\* lookahead fails; 0 when the label cannot be closed
RECURSIVE LazyEnd(_, _)
LazyEnd(text, i) ==
    IF Lookahead(text, i) THEN i
    ELSE IF i <= Len(text) /\ InClass(".", text[i]) THEN LazyEnd(text, i + 1)
    ELSE 0

\* (\d{4,}) - (.*?)(?=\d{4,} -|\n|$) tried at position p
pattern_4digits(text, p) ==
    LET numEnd == RunEnd(text, p, "d")
        lab == numEnd + 3
        labEnd == LazyEnd(text, lab)
    IN  IF LongNumberAt(text, p, Sep) /\ labEnd # 0
        THEN [start |-> p, stop |-> labEnd,
              groups |-> <<Slice(text, p, numEnd), Slice(text, lab, labEnd)>>]
        ELSE NoMatch

\* where the scan resumes after a match tried at p
Resume(m, p) == IF m.stop > p THEN m.stop ELSE p + 1

\* pattern_3digits.findall(text): leftmost non-overlapping matches from p on
RECURSIVE findall_3digits(_, _)
findall_3digits(text, p) ==
    IF p > Len(text) THEN <<>>
    ELSE LET m == pattern_3digits(text, p)
         IN  IF m.start # 0
             THEN <<m>> \o findall_3digits(text, Resume(m, p))
             ELSE findall_3digits(text, p + 1)

\* pattern_4digits.findall(text)
RECURSIVE findall_4digits(_, _)
findall_4digits(text, p) ==
    IF p > Len(text) THEN <<>>
    ELSE LET m == pattern_4digits(text, p)
         IN  IF m.start # 0
             THEN <<m>> \o findall_4digits(text, Resume(m, p))
             ELSE findall_4digits(text, p + 1)

----------------------------------------------------------------------------
(* extract_extensions                                                      *)

\* an append that skips a row whose number the list already holds
append_unique(list, x) ==
    IF \E i \in DOMAIN list : list[i][1] = x[1] THEN list ELSE Append(list, x)

\* list.append
append(list, x) == Append(list, x)

\* the list built from one pattern_3digits match
ShortRow(m) == <<int(m.groups[1]), upper(strip(m.groups[2])), strip(m.groups[3])>>

\* the list built from one pattern_4digits match
LongRow(m) == <<int(m.groups[1]), strip(m.groups[2])>>

\* the length test on the captured token instead of str(number)
IsFourDigits_Token(m) == Len(m.groups[1]) = 4

\* len(str(number)) == 4 for number = int(token)
IsFourDigits(m) == Len(str(int(m.groups[1]))) = 4

\* for match in matches_3digits: data_3digits.append([...])
RECURSIVE loop_3digits(_, _)
loop_3digits(ms, acc) ==
    IF ms = <<>> THEN acc
    ELSE loop_3digits(Tail(ms), append(acc, ShortRow(Head(ms))))

\* a loop that keeps the 4-digit rows only
RECURSIVE loop_4digits_drop(_, _)
loop_4digits_drop(ms, acc) ==
    IF ms = <<>> THEN acc
    ELSE loop_4digits_drop(Tail(ms),
            IF IsFourDigits(Head(ms))
            THEN <<append(acc[1], LongRow(Head(ms))), acc[2]>>
            ELSE acc)

\* for match in matches_4digits: file the row by the length of str(number);
\* the result is <<data_4digits, data_longer_than_4digits>>
RECURSIVE loop_4digits(_, _)
loop_4digits(ms, acc) ==
    IF ms = <<>> THEN acc
    ELSE loop_4digits(Tail(ms),
            IF IsFourDigits(Head(ms))
            THEN <<append(acc[1], LongRow(Head(ms))), acc[2]>>
            ELSE <<acc[1], append(acc[2], LongRow(Head(ms)))>>)

----------------------------------------------------------------------------
(* pandas                                                                  *)

RemoveAt(s, i) == SubSeq(s, 1, i - 1) \o SubSeq(s, i + 1, Len(s))

\* DataFrame.sort_values(by=column) with the default kind='quicksort', which
\* is not a stable sort: every ordering of the rows that is ascending in the
\* column is a possible result.
RECURSIVE sort_values(_, _)
sort_values(rows, col) ==
    IF rows = <<>> THEN {<<>>}
    ELSE UNION {
            {<<rows[i]>> \o rest : rest \in sort_values(RemoveAt(rows, i), col)}
            : i \in {j \in DOMAIN rows :
                        \A k \in DOMAIN rows : rows[j][col] <= rows[k][col]}}

\* [[ext, f"{callsign} - {name}"] for ext, callsign, name in data_3digits]
\*     + data_4digits + data_longer_than_4digits
combined_data(d3, d4, dl) ==
    [i \in 1..Len(d3) |-> <<d3[i][1], d3[i][2] \o Sep \o d3[i][3]>>] \o d4 \o dl

\* df[[...]]: the listed columns of every row
Columns(rows, cols) == [i \in 1..Len(rows) |-> [k \in 1..Len(cols) |-> rows[i][cols[k]]]]

----------------------------------------------------------------------------
(* Files, flags and inputs                                                 *)

Emitters == {"users", "other", "dapnet", "fanvil", "yealink", "cisco"}

Flags == Emitters \cup {"all", "remove"}

files_to_remove == <<"hamvoip_users.csv", "hamvoip_cisco.xml", "hamvoip_fanvil.csv",
                     "hamvoip_other.csv", "hamvoip_dapnet.csv", "hamvoip_yealink.csv">>

\* a file of the working directory that the tool does not generate
OtherFile == "notes.txt"

FileNames == Range(files_to_remove) \cup {OtherFile}

Absent == [exists |-> FALSE, header |-> <<>>, rows |-> <<>>]

\* a file left by an earlier run
Stale == [exists |-> TRUE, header |-> <<"stale">>, rows |-> <<>>]

Written(header, rows) == [exists |-> TRUE, header |-> header, rows |-> rows]

NoArgs == [f \in Flags |-> FALSE]

\* no request has been made yet
NoResponse == [status_code |-> 0, extensions_link |-> FALSE]

\* pieces of directory text
F301 == <<"3", "0", "1", " ", "-", " ">>
F4500 == <<"4", "5", "0", "0", " ", "-", " ">>
F1234 == <<"1", "2", "3", "4", " ", "-", " ">>
F10023 == <<"1", "0", "0", "2", "3", " ", "-", " ">>
FZero == <<"0">>
FUpperTok == <<"A", "B", " ", "-", " ">>
FLowerTok == <<"a", "b", " ", "-", " ">>
FWord == <<"A", "B">>
FNewline == <<"\n">>

Fragments == {F301, F4500, F1234, F10023, FZero, FUpperTok, FLowerTok, FNewline}

\* the longest text, in pieces
MaxFrags == 4

RECURSIVE Flatten(_)
Flatten(fs) == IF fs = <<>> THEN <<>> ELSE Head(fs) \o Flatten(Tail(fs))

Texts == {Flatten(fs) : fs \in UNION {[1..n -> Fragments] : n \in 0..MaxFrags}}

\* the documents of the full runs: a short entry, entries out of order, an
\* extended entry, the empty document, a repeated number, a leading zero
Documents ==
    { Flatten(<<F301, FUpperTok, FWord, FNewline>>),
      Flatten(<<F4500, FWord, FNewline, F1234, FWord, FNewline>>),
      Flatten(<<F10023, FWord, FNewline>>),
      <<>>,
      Flatten(<<F4500, FWord, FNewline, F4500, FNewline>>),
      Flatten(<<F4500, FWord, FNewline, FZero, F301, FUpperTok, FWord>>) }

\* the working directory before a run: empty, or with files of an earlier run
InitialFiles ==
    { [n \in FileNames |-> Absent],
      [n \in FileNames |-> IF n \in {"hamvoip_users.csv", OtherFile} THEN Stale ELSE Absent],
      [n \in FileNames |-> Stale] }

----------------------------------------------------------------------------
(* The script of hamvoip_directory_tool.py                                 *)

dataVars == <<matches_3digits, matches_4digits, data_3digits, data_4digits,
              data_longer_than_4digits>>

\* print_summary(file_name, entries)
print_summary(out, file_name, entries) == Append(out, <<"created", file_name, entries>>)

\* a script that honours --remove only when it is the only flag
ParseArgs_RemoveAlone ==
    /\ pc = "parse_args"
    /\ \E a \in [Flags -> BOOLEAN] :
          /\ args' = a
          /\ pc' = IF \A f \in Flags : ~a[f] THEN "exit"
                   ELSE IF a["remove"] /\ \A f \in Flags \ {"remove"} : ~a[f] THEN "remove_files"
                   ELSE "fetch_1"
    /\ UNCHANGED <<response, pdf_text, dataVars, files, calls, stdout>>

\* args = parse_args(), then the tests of args.remove and of the empty command line
ParseArgs ==
    /\ pc = "parse_args"
    /\ \E a \in [Flags -> BOOLEAN] :
          /\ args' = a
          /\ pc' = IF \A f \in Flags : ~a[f] THEN "exit"
                   ELSE IF a["remove"] THEN "remove_files"
                   ELSE "fetch_1"
    /\ UNCHANGED <<response, pdf_text, dataVars, files, calls, stdout>>

\* remove_files(); exit()
RemoveFiles ==
    /\ pc = "remove_files"
    /\ files' = [n \in FileNames |-> IF n \in Range(files_to_remove) THEN Absent ELSE files[n]]
    /\ stdout' = stdout \o
           [i \in 1..Len(files_to_remove) |->
               <<IF files[files_to_remove[i]].exists THEN "Removed" ELSE "Not found",
                 files_to_remove[i], 0>>]
    /\ pc' = "exit"
    /\ UNCHANGED <<response, args, pdf_text, dataVars, calls>>

\* fetch_extensions_pdf_url(), called twice in a row
FetchExtensionsPdfUrl ==
    /\ pc \in {"fetch_1", "fetch_2"}
    /\ \E status_code \in {200, 404}, extensions_link \in BOOLEAN :
          /\ response' = [status_code |-> status_code, extensions_link |-> extensions_link]
          /\ IF status_code = 200 /\ extensions_link
             THEN /\ pc' = IF pc = "fetch_1" THEN "fetch_2" ELSE "download"
                  /\ stdout' = IF pc = "fetch_2"
                               THEN Append(stdout, <<"Downloaded", "", 0>>)
                               ELSE stdout
             ELSE /\ pc' = "exit_1"
                  /\ stdout' = Append(stdout,
                                  <<IF status_code = 200 THEN "No extensions download URL found."
                                    ELSE "Failed to fetch the download page.", "", 0>>)
    /\ UNCHANGED <<args, pdf_text, dataVars, files, calls>>

\* a download that goes on to the text extraction whatever the status code
DownloadDecryptPdf_IgnoreStatus ==
    /\ pc = "download"
    /\ \E status_code \in {200, 404} :
          /\ response' = [response EXCEPT !.status_code = status_code]
          /\ pc' = "extract_text"
    /\ UNCHANGED <<args, pdf_text, dataVars, files, calls, stdout>>

\* download_decrypt_pdf(pdf_url, password)
DownloadDecryptPdf ==
    /\ pc = "download"
    /\ \E status_code \in {200, 404} :
          /\ response' = [response EXCEPT !.status_code = status_code]
          /\ pc' = IF status_code = 200 THEN "extract_text" ELSE "raised"
    /\ UNCHANGED <<args, pdf_text, dataVars, files, calls, stdout>>

\* pdf_text = extract_text_from_pdf(decrypted_pdf_data)
ExtractTextFromPdf ==
    /\ pc = "extract_text"
    /\ pdf_text' \in Documents
    /\ pc' = "extract_extensions"
    /\ UNCHANGED <<response, args, dataVars, files, calls, stdout>>

\* data_3digits, data_4digits, data_longer_than_4digits = extract_extensions(pdf_text)
ExtractExtensions ==
    /\ pc = "extract_extensions"
    /\ matches_3digits' = findall_3digits(pdf_text, 1)
    /\ matches_4digits' = findall_4digits(pdf_text, 1)
    /\ data_3digits' = loop_3digits(matches_3digits', <<>>)
    /\ data_4digits' = loop_4digits(matches_4digits', <<<<>>, <<>>>>)[1]
    /\ data_longer_than_4digits' = loop_4digits(matches_4digits', <<<<>>, <<>>>>)[2]
    /\ pc' = "dispatch"
    /\ UNCHANGED <<response, args, pdf_text, files, calls, stdout>>

\* the if/elif chain over the flags: the call site that is taken
Branch(a) ==
    IF a["users"] THEN "users"
    ELSE IF a["fanvil"] THEN "fanvil"
    ELSE IF a["cisco"] THEN "cisco"
    ELSE IF a["other"] THEN "other"
    ELSE IF a["dapnet"] THEN "dapnet"
    ELSE IF a["yealink"] THEN "yealink"
    ELSE IF a["all"] THEN "all_users"
    ELSE "finish"

Dispatch ==
    /\ pc = "dispatch"
    /\ pc' = Branch(args)
    /\ UNCHANGED <<response, args, pdf_text, dataVars, files, calls, stdout>>

\* the statement after a call site: the calls of the --all branch follow each
\* other, every other branch holds one call
Return(site) ==
    CASE site = "all_users" -> "all_other"
      [] site = "all_other" -> "all_dapnet"
      [] site = "all_dapnet" -> "all_fanvil"
      [] site = "all_fanvil" -> "all_yealink"
      [] site = "all_yealink" -> "all_cisco"
      [] OTHER -> "finish"

\* an emitter is entered from its own branch or from the --all branch
Called(e) ==
    /\ pc \in {e, "all_" \o e}
    /\ calls' = [calls EXCEPT ![e] = @ + 1]
    /\ pc' = Return(pc)
    /\ UNCHANGED <<response, args, pdf_text, dataVars>>

\* a file written together with its summary line
Create(name, header, rows, entries) ==
    /\ files' = [files EXCEPT ![name] = Written(header, rows)]
    /\ stdout' = print_summary(stdout, name, entries)

GenerateUsersCsv ==
    /\ Called("users")
    /\ IF data_3digits # <<>>
       THEN \E rows \in sort_values(data_3digits, 1) :
               Create("hamvoip_users.csv", <<"Extension", "Callsign", "Name">>, rows,
                      Len(data_3digits))
       ELSE UNCHANGED <<files, stdout>>

GenerateOtherCsv ==
    /\ Called("other")
    /\ IF data_4digits # <<>> \/ data_longer_than_4digits # <<>>
       THEN \E rows \in sort_values(data_4digits \o data_longer_than_4digits, 1) :
               Create("hamvoip_other.csv", <<"Extension", "Name">>, rows,
                      Len(data_4digits) + Len(data_longer_than_4digits))
       ELSE UNCHANGED <<files, stdout>>

GenerateDapnetCsv ==
    /\ Called("dapnet")
    /\ IF data_3digits # <<>>
       THEN \E rows \in sort_values(Columns(data_3digits, <<1, 2>>), 1) :
               Create("hamvoip_dapnet.csv", <<"extension", "callsign">>, rows,
                      Len(data_3digits))
       ELSE UNCHANGED <<files, stdout>>

\* the frame has the columns work, name, mobile, other, ring, groups in this
\* order and is written under the header name, work, mobile, other, ring, groups
FanvilRow(r) == <<r[1], r[2], "", "", "Default", "">>

\* the columns of df_fanvil, in the order of FanvilRow
FanvilColumns == <<"work", "name", "mobile", "other", "ring", "groups">>

GenerateFanvilCsv ==
    /\ Called("fanvil")
    /\ LET combined == combined_data(data_3digits, data_4digits, data_longer_than_4digits)
       IN  IF data_3digits # <<>> \/ data_4digits # <<>> \/ data_longer_than_4digits # <<>>
           THEN \E rows \in sort_values([i \in 1..Len(combined) |-> FanvilRow(combined[i])], 1) :
                   Create("hamvoip_fanvil.csv",
                          <<"name", "work", "mobile", "other", "ring", "groups">>, rows,
                          Len(combined))
           ELSE UNCHANGED <<files, stdout>>

\* no test of the collections and no sort: the entries are written in the
\* order of combined_data
GenerateCiscoXml ==
    /\ Called("cisco")
    /\ LET combined == combined_data(data_3digits, data_4digits, data_longer_than_4digits)
       IN  Create("hamvoip_cisco.xml", <<"Name", "Telephone">>,
                  [i \in 1..Len(combined) |-> <<combined[i][2], combined[i][1]>>],
                  Len(combined))

\* the columns display_name, office_number and the nine constant ones
YealinkRow(r) == <<r[2], r[1], "", "", "2", "Auto", "", "", "HamVoip",
                   "Config:logo-hamvoip.jpg", "photo_data">>

\* no test of the collections; sorted by office_number
GenerateYealinkCsv ==
    /\ Called("yealink")
    /\ LET combined == combined_data(data_3digits, data_4digits, data_longer_than_4digits)
       IN  \E rows \in sort_values([i \in 1..Len(combined) |-> YealinkRow(combined[i])], 2) :
              Create("hamvoip_yealink.csv",
                     <<"display_name", "office_number", "mobile_number", "other_number",
                       "line", "ring", "auto_divert", "priority", "group_id_name",
                       "default_photo", "photo_data">>, rows, Len(combined))

\* print("Process completed successfully.")
Finish ==
    /\ pc = "finish"
    /\ stdout' = Append(stdout, <<"Process completed successfully.", "", 0>>)
    /\ pc' = "done"
    /\ UNCHANGED <<response, args, pdf_text, dataVars, files, calls>>

Init ==
    /\ pc = "parse_args"
    /\ response = NoResponse
    /\ args = NoArgs
    /\ pdf_text = <<>>
    /\ matches_3digits = <<>>
    /\ matches_4digits = <<>>
    /\ data_3digits = <<>>
    /\ data_4digits = <<>>
    /\ data_longer_than_4digits = <<>>
    /\ files \in InitialFiles
    /\ calls = [e \in Emitters |-> 0]
    /\ stdout = <<>>

Next ==
    \/ ParseArgs
    \/ RemoveFiles
    \/ FetchExtensionsPdfUrl
    \/ DownloadDecryptPdf
    \/ ExtractTextFromPdf
    \/ ExtractExtensions
    \/ Dispatch
    \/ GenerateUsersCsv
    \/ GenerateOtherCsv
    \/ GenerateDapnetCsv
    \/ GenerateFanvilCsv
    \/ GenerateYealinkCsv
    \/ GenerateCiscoXml
    \/ Finish

\* every run of hamvoip_directory_tool.py over the command lines, the fetch
\* outcomes and Documents
Spec == Init /\ [][Next]_vars

----------------------------------------------------------------------------
(* get_data_from_pdf.py, from the regular expressions to the two files     *)

\* the whole script after combined_text: the rows of data_3digits hold the
\* number and the callsign only; hamvoip_other.csv takes the sorted 4-digit
\* frame and then, appended, the sorted longer frame
GetDataFromPdf ==
    /\ pc = "extract_extensions"
    /\ args = NoArgs
    /\ matches_3digits' = findall_3digits(pdf_text, 1)
    /\ matches_4digits' = findall_4digits(pdf_text, 1)
    /\ data_3digits' = Columns(loop_3digits(matches_3digits', <<>>), <<1, 2>>)
    /\ data_4digits' = loop_4digits(matches_4digits', <<<<>>, <<>>>>)[1]
    /\ data_longer_than_4digits' = loop_4digits(matches_4digits', <<<<>>, <<>>>>)[2]
    /\ \E df_3digits_sorted \in sort_values(data_3digits', 1),
          df_4digits_sorted \in sort_values(data_4digits', 1),
          df_longer_than_4digits_sorted \in sort_values(data_longer_than_4digits', 1) :
          /\ files' = [files EXCEPT
                 !["hamvoip_users.csv"] = Written(<<"extension", "callsign">>, df_3digits_sorted),
                 !["hamvoip_other.csv"] = Written(<<"Extension", "Name">>,
                     df_4digits_sorted \o df_longer_than_4digits_sorted)]
          /\ stdout' = stdout \o
                 << <<"Number of 3-digit extensions found", "", Len(df_3digits_sorted)>>,
                    <<"Number of 4-digit extensions found", "", Len(df_4digits_sorted)>>,
                    <<"Number of extensions longer than 4 digits found", "",
                      Len(df_longer_than_4digits_sorted)>> >>
    /\ pc' = "pdf_done"
    /\ UNCHANGED <<response, args, pdf_text, calls>>

----------------------------------------------------------------------------
(* Extraction and the emitters over every text of Texts                    *)

\* one emitter of hamvoip_directory_tool.py applied to the extracted
\* collections, as its own branch of the chain calls it
CallEmitter ==
    /\ pc = "dispatch"
    /\ pc' \in Emitters
    /\ UNCHANGED <<response, args, pdf_text, dataVars, files, calls, stdout>>

InitText ==
    /\ pc = "extract_extensions"
    /\ response = NoResponse
    /\ args = NoArgs
    /\ pdf_text \in Texts
    /\ matches_3digits = <<>>
    /\ matches_4digits = <<>>
    /\ data_3digits = <<>>
    /\ data_4digits = <<>>
    /\ data_longer_than_4digits = <<>>
    /\ files = [n \in FileNames |-> Absent]
    /\ calls = [e \in Emitters |-> 0]
    /\ stdout = <<>>

NextText ==
    \/ ExtractExtensions
    \/ GetDataFromPdf
    \/ CallEmitter
    \/ GenerateUsersCsv
    \/ GenerateOtherCsv
    \/ GenerateDapnetCsv
    \/ GenerateFanvilCsv
    \/ GenerateYealinkCsv
    \/ GenerateCiscoXml

SpecText == InitText /\ [][NextText]_vars

----------------------------------------------------------------------------
(* Properties                                                              *)

\* extract_extensions has just returned, or get_data_from_pdf.py has run: the
\* collections are not assigned again afterwards
Extracted == pc \in {"dispatch", "pdf_done"}

\* the hamvoip_directory_tool.py side of SpecText
ToolRun == pc # "pdf_done"

LongRows == data_4digits \o data_longer_than_4digits

\* C1: every record filed in data_longer_than_4digits has id >= 10000, also
\* when the numeric token has leading zeros.
C1_ExtendedIdAtLeast10000 ==
    Extracted =>
        \A i \in DOMAIN data_longer_than_4digits : data_longer_than_4digits[i][1] >= 10000

TokenHasFourDigits(m) == Len(m.groups[1]) = 4

TokenHasFiveOrMoreDigits(m) == Len(m.groups[1]) >= 5

RowsOf(ms) == [i \in 1..Len(ms) |-> LongRow(ms[i])]

\* C2: a pattern_4digits match is filed as StandardEntry exactly when its
\* captured token has 4 digits and as ExtendedEntry exactly when the token has
\* 5 or more: the two lists are the rows of the matches with such tokens.
C2_FiledByTokenLength ==
    Extracted =>
        /\ data_4digits = RowsOf(SelectSeq(matches_4digits, TokenHasFourDigits))
        /\ data_longer_than_4digits = RowsOf(SelectSeq(matches_4digits, TokenHasFiveOrMoreDigits))

Disjoint(a, b) == a.stop <= b.start \/ b.stop <= a.start

\* C3 as stated: no character of a pattern_3digits match lies inside a
\* pattern_4digits match.
C3_ShortMatchOutsideLongMatches ==
    Extracted =>
        \A i \in DOMAIN matches_3digits, j \in DOMAIN matches_4digits :
            Disjoint(matches_3digits[i], matches_4digits[j])

AtLineStart(p) == p = 1 \/ pdf_text[p - 1] = "\n"

\* the callsign group ends in four or more digits
EndsInLongNumber(tok) ==
    /\ Len(tok) >= 4
    /\ \A k \in (Len(tok) - 3)..Len(tok) : IsDigit(tok[k])

\* C3 amended: a pattern_3digits match that starts its line and whose callsign
\* does not end in four or more digits shares no character with any
\* pattern_4digits match.  (Other rule-A matches can lie inside a rule-B match:
\* the two patterns are scanned independently.)
C3_LineStartShortMatchDisjoint ==
    Extracted =>
        \A i \in DOMAIN matches_3digits, j \in DOMAIN matches_4digits :
            (AtLineStart(matches_3digits[i].start)
             /\ ~EndsInLongNumber(matches_3digits[i].groups[2]))
                => Disjoint(matches_3digits[i], matches_4digits[j])

C3_Witness ==
    /\ Extracted
    /\ \E i \in DOMAIN matches_3digits, j \in DOMAIN matches_4digits :
          /\ AtLineStart(matches_3digits[i].start)
          /\ ~EndsInLongNumber(matches_3digits[i].groups[2])

\* s holds, at position k, n >= 4 digits immediately followed by " -"
NumberThenDash(s, k) ==
    \E n \in 4..Len(s) :
        /\ \A d \in 0..(n - 1) : IsDigit(At(s, k + d))
        /\ At(s, k + n) = " "
        /\ At(s, k + n + 1) = "-"

\* a label may end at position r of the text
LabelBoundary(r) ==
    \/ r = Len(pdf_text) + 1
    \/ At(pdf_text, r) = "\n"
    \/ NumberThenDash(pdf_text, r)

\* where the label of a pattern_4digits match starts
LabelStart(m) == m.start + Len(m.groups[1]) + 3

\* C4: the label of every StandardEntry and ExtendedEntry holds no newline and
\* no run of 4 or more digits immediately followed by " -", and the captured
\* label ends at the earliest of the next such number, a newline and the end
\* of the input.
C4_LabelStopsAtNextEntry ==
    Extracted =>
        /\ \A i \in DOMAIN LongRows :
              /\ "\n" \notin Range(LongRows[i][2])
              /\ \A k \in DOMAIN LongRows[i][2] : ~NumberThenDash(LongRows[i][2], k)
        /\ \A j \in DOMAIN matches_4digits :
              /\ LabelBoundary(matches_4digits[j].stop)
              /\ \A r \in LabelStart(matches_4digits[j])..(matches_4digits[j].stop - 1) :
                    ~LabelBoundary(r)
              /\ matches_4digits[j].groups[2] =
                    Slice(pdf_text, LabelStart(matches_4digits[j]), matches_4digits[j].stop)

\* a label with text in it that the next entry's number closed
C4_Witness ==
    /\ Extracted
    /\ \E j \in DOMAIN matches_4digits :
          /\ matches_4digits[j].groups[2] # <<>>
          /\ NumberThenDash(pdf_text, matches_4digits[j].stop)
          /\ \E i \in DOMAIN LongRows : LongRows[i][2] = strip(matches_4digits[j].groups[2])

\* the column of a generated file that holds the number
IdColumn(name) == IF name \in {"hamvoip_yealink.csv", "hamvoip_cisco.xml"} THEN 2 ELSE 1

Ascending(rows, col) ==
    \A a, b \in DOMAIN rows : a < b => rows[a][col] <= rows[b][col]

\* C5: in every output (users, other, dapnet, fanvil, yealink, cisco) the
\* records appear in non-decreasing order of their number.
C5_EveryOutputSortedById ==
    \A i \in DOMAIN files_to_remove :
        files[files_to_remove[i]].exists =>
            Ascending(files[files_to_remove[i]].rows, IdColumn(files_to_remove[i]))

\* C6: when a run without --remove completes, every emitter selected by its
\* own flag or by --all has been called exactly once and no other emitter has
\* been called.
C6_SelectedEmittersRunOnce ==
    pc = "done" =>
        \A e \in Emitters : calls[e] = IF args[e] \/ args["all"] THEN 1 ELSE 0

UniqueIds(rows) ==
    \A a, b \in DOMAIN rows : a # b => rows[a][1] # rows[b][1]

\* C7 as stated: within each of the three collections no two records have the
\* same number.
C7_IdsUniquePerCategory ==
    Extracted =>
        /\ UniqueIds(data_3digits)
        /\ UniqueIds(data_4digits)
        /\ UniqueIds(data_longer_than_4digits)

\* how many rows carry the number k, and how many matches parse to it
RowCount(rows, k) == Cardinality({i \in DOMAIN rows : rows[i][1] = k})

MatchCount(ms, k) == Cardinality({j \in DOMAIN ms : int(ms[j].groups[1]) = k})

NumbersOf(ms, rows) ==
    {int(ms[j].groups[1]) : j \in DOMAIN ms} \cup {rows[i][1] : i \in DOMAIN rows}

\* C7 amended: records are neither merged nor dropped, so within a category a
\* number occurs in as many records as there are matches of that category that
\* parse to it; it is unique there only if the text does not repeat it.  A
\* number of a pattern_4digits match lives in one of the two long collections.
C7_OneRecordPerMatchOfANumber ==
    Extracted =>
        /\ \A k \in NumbersOf(matches_3digits, data_3digits) :
              RowCount(data_3digits, k) = MatchCount(matches_3digits, k)
        /\ \A k \in NumbersOf(matches_4digits, LongRows) :
              /\ RowCount(data_4digits, k) + RowCount(data_longer_than_4digits, k)
                    = MatchCount(matches_4digits, k)
              /\ RowCount(data_4digits, k) = 0 \/ RowCount(data_longer_than_4digits, k) = 0

\* a number repeated inside one category
C7_Witness ==
    /\ Extracted
    /\ \E k \in NumbersOf(matches_4digits, LongRows) :
          RowCount(data_4digits, k) >= 2 \/ RowCount(data_longer_than_4digits, k) >= 2

IsLetterOrDigit(c) == c \in Range(UpperChars) \cup Range(LowerChars) \/ IsDigit(c)

\* the text is one line <3dd> - <token> - <label>\n whose token ends before
\* position t: letters of either case and digits, then a digit-free label
ShortFormLine(t) ==
    /\ At(pdf_text, 1) = "3"
    /\ IsDigit(At(pdf_text, 2))
    /\ IsDigit(At(pdf_text, 3))
    /\ HasLit(pdf_text, 4, Sep)
    /\ t > 7
    /\ \A k \in 7..(t - 1) : IsLetterOrDigit(pdf_text[k])
    /\ HasLit(pdf_text, t, Sep)
    /\ Len(pdf_text) - 1 >= t + 3
    /\ \A k \in (t + 3)..(Len(pdf_text) - 1) : ~IsDigit(pdf_text[k]) /\ pdf_text[k] # "\n"
    /\ pdf_text[Len(pdf_text)] = "\n"

\* C8: a line <3dd> - <token> - <label> followed by a newline, with a token of
\* letters of either case and digits and a digit-free label, yields a
\* ShortEntry whose code is the token in upper case.
C8_ShortFormLineYieldsUpperCode ==
    Extracted =>
        \A t \in 1..Len(pdf_text) :
            ShortFormLine(t) =>
                \E i \in DOMAIN data_3digits :
                    /\ data_3digits[i][1] = int(Slice(pdf_text, 1, 4))
                    /\ data_3digits[i][2] = upper(Slice(pdf_text, 7, t))

\* C9: in hamvoip_other.csv every StandardEntry row precedes every
\* ExtendedEntry row.
C9_StandardRowsBeforeExtendedRows ==
    files["hamvoip_other.csv"].exists =>
        \A a, b \in DOMAIN files["hamvoip_other.csv"].rows :
            a < b => ~(/\ files["hamvoip_other.csv"].rows[a] \in Range(data_longer_than_4digits)
                       /\ files["hamvoip_other.csv"].rows[b] \in Range(data_4digits))

\* the rows with the number k in column col, in their order
RECURSIVE WithId(_, _, _)
WithId(rows, col, k) ==
    IF rows = <<>> THEN <<>>
    ELSE (IF Head(rows)[col] = k THEN <<Head(rows)>> ELSE <<>>) \o WithId(Tail(rows), col, k)

KeepsOrder(name, source) ==
    files[name].exists =>
        \A k \in {source[i][1] : i \in DOMAIN source} :
            WithId(files[name].rows, 1, k) = WithId(source, 1, k)

\* C10: records of one category with equal numbers appear in the sorted
\* outputs of hamvoip_directory_tool.py in the order in which they were
\* matched.
C10_EqualIdsKeepMatchOrder ==
    ToolRun
       => /\ KeepsOrder("hamvoip_users.csv", data_3digits)
          /\ KeepsOrder("hamvoip_other.csv", LongRows)
          /\ KeepsOrder("hamvoip_dapnet.csv", Columns(data_3digits, <<1, 2>>))

\* C11: every ShortEntry has 300 <= id <= 399 and a non-empty code made of the
\* characters A-Z and 0-9 only.
C11_ShortEntryIdAndCode ==
    Extracted =>
        \A i \in DOMAIN data_3digits :
            /\ data_3digits[i][1] >= 300
            /\ data_3digits[i][1] <= 399
            /\ data_3digits[i][2] # <<>>
            /\ \A k \in DOMAIN data_3digits[i][2] :
                  data_3digits[i][2][k] \in Range(UpperChars) \cup Range(DigitChars)

\* a ShortEntry has been produced, by either script
C11_Witness ==
    /\ Extracted
    /\ data_3digits # <<>>
    /\ \E k \in DOMAIN data_3digits[1][2] : data_3digits[1][2][k] \in Range(UpperChars)

\* C12: every record filed in data_4digits has 1000 <= id <= 9999.
C12_StandardIdHasFourDigits ==
    Extracted =>
        \A i \in DOMAIN data_4digits :
            data_4digits[i][1] >= 1000 /\ data_4digits[i][1] <= 9999

\* a token with a leading zero (five characters) filed in data_4digits
C12_Witness ==
    /\ Extracted
    /\ \E j \in DOMAIN matches_4digits :
          /\ Len(matches_4digits[j].groups[1]) = 5
          /\ \E i \in DOMAIN data_4digits : data_4digits[i] = LongRow(matches_4digits[j])

\* the records an output is made from, in the shape in which it holds them
SourceRows(name) ==
    LET combined == combined_data(data_3digits, data_4digits, data_longer_than_4digits)
    IN  CASE name = "hamvoip_users.csv" -> data_3digits
          [] name = "hamvoip_other.csv" -> LongRows
          [] name = "hamvoip_dapnet.csv" -> Columns(data_3digits, <<1, 2>>)
          [] name = "hamvoip_fanvil.csv" -> [i \in 1..Len(combined) |-> FanvilRow(combined[i])]
          [] name = "hamvoip_yealink.csv" -> [i \in 1..Len(combined) |-> YealinkRow(combined[i])]
          [] name = "hamvoip_cisco.xml" ->
                [i \in 1..Len(combined) |-> <<combined[i][2], combined[i][1]>>]

\* a and b hold the same records, each as many times
SameRecords(a, b) ==
    /\ Len(a) = Len(b)
    /\ \A r \in Range(a) \cup Range(b) :
          Cardinality({i \in DOMAIN a : a[i] = r}) = Cardinality({i \in DOMAIN b : b[i] = r})

\* C13: data_3digits has one record per pattern_3digits match, data_4digits and
\* data_longer_than_4digits together have one record per pattern_4digits match,
\* and every output holds exactly the records it was made from: sorting and
\* trimming add and remove nothing.
C13_RecordCountPreserved ==
    pc # "extract_extensions" =>
        /\ Len(data_3digits) = Len(matches_3digits)
        /\ Len(data_4digits) + Len(data_longer_than_4digits) = Len(matches_4digits)
        /\ \A i \in DOMAIN files_to_remove :
              files[files_to_remove[i]].exists =>
                  SameRecords(files[files_to_remove[i]].rows, SourceRows(files_to_remove[i]))

\* an output of several records, one of them an ExtendedEntry
C13_Witness ==
    /\ ToolRun
    /\ files["hamvoip_other.csv"].exists
    /\ Len(files["hamvoip_other.csv"].rows) >= 2
    /\ data_longer_than_4digits # <<>>
    /\ data_4digits # <<>>

\* C14: the label of every ShortEntry holds no digit and no newline.
C14_ShortLabelHasNoDigit ==
    (Extracted /\ ToolRun) =>
        \A i \in DOMAIN data_3digits :
            \A k \in DOMAIN data_3digits[i][3] :
                ~IsDigit(data_3digits[i][3][k]) /\ data_3digits[i][3][k] # "\n"

\* a ShortEntry whose label was cut at a digit of the text
C14_Witness ==
    /\ Extracted /\ ToolRun
    /\ \E j \in DOMAIN matches_3digits :
          /\ IsDigit(At(pdf_text, matches_3digits[j].stop))
          /\ data_3digits[j][3] # <<>>

\* the run has stopped on exit(1) or on the exception of download_decrypt_pdf
Failed == pc \in {"exit_1", "raised"}

\* the response that has just arrived is a failure of the request made at pc
FailureArrives ==
    \/ /\ pc \in {"fetch_1", "fetch_2"}
       /\ response'.status_code # 200 \/ ~response'.extensions_link
    \/ /\ pc = "download"
       /\ response'.status_code # 200

\* C15: a download page that is not answered with 200 or holds no extensions
\* link, and a PDF download that is not answered with 200, stop the run on
\* exit(1) or on the exception; nothing has been extracted, no emitter has been
\* called, no file has been created or changed since the start of the run, and
\* the stopped run takes no further step.
C15_FetchFailureStopsRun ==
    /\ [][FailureArrives => Failed']_vars
    /\ [][(pc \in {"parse_args", "fetch_1", "fetch_2", "download"} /\ pc' # "remove_files")
             => files' = files]_vars
    /\ [][Failed' => pc \in {"fetch_1", "fetch_2", "download"}]_vars
    /\ [][~Failed]_vars
    /\ [](Failed => /\ \A e \in Emitters : calls[e] = 0
                    /\ pdf_text = <<>>
                    /\ matches_3digits = <<>> /\ matches_4digits = <<>>
                    /\ data_3digits = <<>> /\ data_4digits = <<>>
                    /\ data_longer_than_4digits = <<>>)

\* the PDF download has failed in a directory that holds files of an earlier run
C15_Witness ==
    /\ pc = "raised"
    /\ response.status_code # 200
    /\ files["hamvoip_users.csv"] = Stale

\* the six files the tool generates
GeneratedFiles ==
    {"hamvoip_users.csv", "hamvoip_cisco.xml", "hamvoip_fanvil.csv",
     "hamvoip_other.csv", "hamvoip_dapnet.csv", "hamvoip_yealink.csv"}

\* the lines of out that report a removed file
RemovedLines(out) == {i \in DOMAIN out : out[i][1] = "Removed"}

\* C16: with --remove, alone or with other flags, the run deletes those of the
\* six generated files that exist (and reports each of them), leaves every
\* other file as it was, and exits: no request is made, nothing is extracted
\* and no emitter is called.
C16_RemoveDeletesGeneratedFilesOnly ==
    /\ [][(pc = "parse_args" /\ args'["remove"]) => (pc' = "remove_files" /\ files' = files)]_vars
    /\ [][pc = "remove_files" =>
             /\ pc' = "exit"
             /\ \A n \in GeneratedFiles : ~files'[n].exists
             /\ \A n \in FileNames \ GeneratedFiles : files'[n] = files[n]
             /\ Cardinality(RemovedLines(stdout')) =
                   Cardinality({n \in GeneratedFiles : files[n].exists})]_vars
    /\ [][pc # "exit"]_vars
    /\ [](args["remove"] =>
             /\ pc \in {"remove_files", "exit"}
             /\ response = NoResponse
             /\ pdf_text = <<>>
             /\ data_3digits = <<>> /\ data_4digits = <<>> /\ data_longer_than_4digits = <<>>
             /\ \A e \in Emitters : calls[e] = 0)

\* --remove given with --users and --all: a file has been removed and the file
\* that is not a generated one is still there
C16_Witness ==
    /\ pc = "exit"
    /\ args["remove"] /\ args["users"] /\ args["all"]
    /\ RemovedLines(stdout) # {}
    /\ files[OtherFile] = Stale

\* the column of df_fanvil whose values hamvoip_fanvil.csv holds under header h
FanvilColumnUnder(h) ==
    FanvilColumns[CHOOSE k \in DOMAIN files["hamvoip_fanvil.csv"].header :
                      files["hamvoip_fanvil.csv"].header[k] = h]

\* C17: in hamvoip_fanvil.csv the values under the header work are the
\* extension numbers (the column work of the frame) and the values under the
\* header name are the display texts (the column name of the frame).
C17_FanvilWorkHoldsNumber ==
    (files["hamvoip_fanvil.csv"].exists /\ files["hamvoip_fanvil.csv"].rows # <<>>) =>
        /\ FanvilColumnUnder("work") = "work"
        /\ FanvilColumnUnder("name") = "name"

\* nothing was matched
NoRecords == data_3digits = <<>> /\ data_4digits = <<>> /\ data_longer_than_4digits = <<>>

\* C19: an emitter of hamvoip_directory_tool.py whose collections are all
\* empty creates no file and prints no summary, so after a text without
\* matches no generated file exists and nothing has been reported.
C19_EmptyCollectionsWriteNothing ==
    (ToolRun /\ pc # "extract_extensions" /\ NoRecords) =>
        /\ \A n \in FileNames : ~files[n].exists
        /\ stdout = <<>>

IsUpperOrDigit(c) == c \in Range(UpperChars) \cup Range(DigitChars)

\* the first position from i on whose character is not an upper-case letter
\* or a digit
TokenStop(i) ==
    CHOOSE t \in i..(Len(pdf_text) + 1) :
        /\ ~IsUpperOrDigit(At(pdf_text, t))
        /\ \A k \in i..(t - 1) : IsUpperOrDigit(pdf_text[k])

\* the first position from i on that holds a digit, a newline or nothing
LabelStop(i) ==
    CHOOSE e \in i..(Len(pdf_text) + 1) :
        /\ IsDigit(At(pdf_text, e)) \/ At(pdf_text, e) \in {"", "\n"}
        /\ \A k \in i..(e - 1) : ~IsDigit(pdf_text[k]) /\ pdf_text[k] # "\n"

\* a line starts at p with <3dd> - <token> - , the token made of upper-case
\* letters and digits
ShortFormAt(p) ==
    /\ AtLineStart(p)
    /\ At(pdf_text, p) = "3"
    /\ IsDigit(At(pdf_text, p + 1))
    /\ IsDigit(At(pdf_text, p + 2))
    /\ HasLit(pdf_text, p + 3, Sep)
    /\ TokenStop(p + 6) > p + 6
    /\ HasLit(pdf_text, TokenStop(p + 6), Sep)

\* where the label portion of the short-form line at p starts
ShortLabelStart(p) == TokenStop(p + 6) + 3

\* C18: a short-form line (<3dd> - <token> - at the start of a line, the token
\* of upper-case letters and digits) whose label portion starts with a
\* character that is not a digit yields the ShortEntry of its number and token
\* whose label is the trimmed text up to the first digit or the end of the
\* line; it yields no ShortEntry exactly when the character right after the
\* second " - " is a digit, a newline or the end of the input.
C18_LabelCutAtFirstDigit ==
    (Extracted /\ ToolRun) =>
        \A p \in DOMAIN pdf_text :
            ShortFormAt(p) =>
                IF LabelStop(ShortLabelStart(p)) > ShortLabelStart(p)
                THEN \E j \in DOMAIN matches_3digits :
                        /\ matches_3digits[j].start = p
                        /\ data_3digits[j] =
                              << int(Slice(pdf_text, p, p + 3)),
                                 Slice(pdf_text, p + 6, TokenStop(p + 6)),
                                 strip(Slice(pdf_text, ShortLabelStart(p),
                                             LabelStop(ShortLabelStart(p)))) >>
                ELSE \A j \in DOMAIN matches_3digits : matches_3digits[j].start # p

\* a short-form line with a digit in its label portion, after other
\* characters, has yielded its ShortEntry
C18_Witness ==
    /\ Extracted /\ ToolRun
    /\ \E p \in DOMAIN pdf_text :
          /\ ShortFormAt(p)
          /\ LabelStop(ShortLabelStart(p)) > ShortLabelStart(p)
          /\ IsDigit(At(pdf_text, LabelStop(ShortLabelStart(p))))
          /\ \E j \in DOMAIN matches_3digits :
                matches_3digits[j].start = p /\ data_3digits[j][3] # <<>>

=============================================================================
